---- MODULE Spec2Model ----
(***************************************************************************)
(* Software electron counting for low-dose STEM images.                    *)
(*                                                                         *)
(* The module models the Cython routines of c_electron_counting:           *)
(*   Spec       c_electron_counting, the per-row peak detection and        *)
(*              integration scan, rows in sequence as the code runs them;  *)
(*   SpecPar    the same scan with the rows as parallel processes;         *)
(*   SpecCounts c_find_most_likely_counts over c_count_probability;        *)
(*   SpecTable  create_factorials_table.                                   *)
(*                                                                         *)
(* Intensities are integers (multiples of one intensity unit); the float   *)
(* comparisons of the code are kept exact by cross-multiplying with the    *)
(* denominator of the relative threshold 1/(1+gamma^2).                    *)
(***************************************************************************)
EXTENDS Integers, Sequences, FiniteSets, TLC

(* ------------------------------ bounds --------------------------------- *)
MaxPixels == 4
MaxSample == 6
MaxBaseline == 1
MaxPeakLength == 3
RAND_MAX == 2
ParRows == 2
ParWidth == 3
MaxProb == 1
MaxXQuarters == 3
MaxCalls == 3

(* ------------------------- program constants --------------------------- *)
integration_range_gamma == 2
factorials_table_length == 20

\* intensities of the input image: below, at and far above a small baseline
Samples == {0, 1, MaxSample}
Baselines == 0..MaxBaseline
\* peak_height = countlevel/peakwidth/(atan(10)-atan(-10)) in intensity units:
\* 0 stands for a height that vanishes against one unit (and float underflow),
\* 5 for a height whose relative threshold equals one unit.
PeakHeights == {0, 5}
\* peakwidth in sixteenths: 1/16 and the values whose peaklength rounds up
PeakWidths == {1} \cup {4 * n - 2 : n \in 1..MaxPeakLength}

VARIABLES
    image,          \* the input, image[k][c], 0-based
    baseline, peak_height, peakwidth, only_integrate,   \* configuration
    result,         \* result[k][c]
    k, i, index, integral, peak_max, pc,                \* locals of the scan
    oob,            \* history: an array access outside the image happened
    acc,            \* history: acc[c] = number of peaks of the current row
                    \*          that accumulated column c
    opened,         \* history: start columns of the peaks begun in this row
                    \*          whose value has not been written yet
    closed,         \* history: the last peak closed
    workers,        \* SpecPar: workers[r] = locals of the process of row r
    draws,          \* SpecPar: history, the draws row r consumed, in order
    x, prob,        \* SpecCounts: the argument (in quarters) and the values
                    \*             c_count_probability(n, x) takes, n = 0..19
    counter, max_probability, ret, cpc,   \* locals of the search
    evaluated,      \* history: the counts c_count_probability was called with
    factorials_table, tcounter, tpc,      \* SpecTable: the table, its loop
    builds,         \* history: create_factorials_table calls completed
    overflow        \* history: a product left the range of long

config == <<image, baseline, peak_height, peakwidth, only_integrate>>
scanvars == <<k, i, index, integral, peak_max, pc, acc, opened, closed>>
parvars == <<workers, draws>>
countvars == <<x, prob, counter, max_probability, ret, cpc, evaluated>>
tablevars == <<factorials_table, tcounter, tpc, builds, overflow>>

vars == <<config, result, oob, scanvars, parvars, countvars, tablevars>>

height == Cardinality(DOMAIN image)
width == Cardinality(DOMAIN image[0])

\* libc round(): half away from zero, of the rational num/den (den > 0)
Round(num, den) ==
    IF num >= 0 THEN (2 * num + den) \div (2 * den)
    ELSE -((2 * (-num) + den) \div (2 * den))

\* peaklength = <int>(round(2.0*integration_range_gamma*peakwidth))
PeakLength(pw) == Round(2 * integration_range_gamma * pw, 16)

peaklength == PeakLength(peakwidth)

\* threshold = 1/(1.0+pow(integration_range_gamma, 2)); its denominator
ThresholdDen == 1 + integration_range_gamma * integration_range_gamma

AboveNoBaseline(s, b, pm) == s * ThresholdDen > pm

\* image[k, i] - baseline > peak_max*threshold
Above(s, b, pm) == (s - b) * ThresholdDen > pm

\* randnum = <int>(<float>rand() / <float>RAND_MAX * <float>peaklength)
RandNum(r, pl) == (r * pl) \div RAND_MAX

\* a cell of the result: a float, or (counted) the value the count estimator
\* returns for the integral arg divided by counts_divisor
Value(v) == [arg |-> v, counted |-> FALSE]
Counted(v) == [arg |-> v, counted |-> TRUE]
Zero == Value(0)

\* result[k, index] = integral  /  c_find_most_likely_counts(integral/counts_divisor)
Written(v) == IF only_integrate THEN Value(v) ELSE Counted(v)

\* integral = 0; index = -1; i = 0; peak_max = peak_height
FreshLocals == [i |-> 0, index |-> -1, integral |-> 0, peak_max |-> peak_height]

\* index != -1 and (image[k, i] - baseline <= peak_max*threshold
\*                  or i - index >= peaklength or i == width-1)
CloseCond(row, w, st) ==
    /\ st.index # -1
    /\ \/ ~Above(row[st.i], baseline, st.peak_max)
       \/ st.i - st.index >= peaklength
       \/ st.i = w - 1

\* the branch one iteration of the while loop takes
Kind(row, w, st) ==
    IF CloseCond(row, w, st)
    THEN IF Above(row[st.i], baseline, st.peak_max) THEN "restart" ELSE "reset"
    ELSE IF st.index # -1 THEN "accumulate"
    ELSE IF Above(row[st.i], baseline, st.peak_max) THEN "start" ELSE "skip"

NoStore == [col |-> -1, val |-> Zero]

RestartAtSame(idx, rn) == idx + rn

\* i = index + 1 + randnum: the column at which a randomized restart lands
RestartAt(idx, rn) == idx + 1 + rn

\* One iteration of the while loop over row (of w samples) from the locals
\* st; r is the value rand() returns and g what an unchecked read outside the
\* row yields.  st: the locals after i += 1; store: the write to the result
\* row (col -1: none); oob: an access left the row; seed/add: the column
\* whose sample seeded / was added to the integral (-1: none).
Body(row, w, st, r, g) ==
    LET s == row[st.i]
        kind == Kind(row, w, st)
        store == [col |-> st.index, val |-> Written(st.integral)]
        badstore == st.index \notin 0..(w - 1)
    IN  CASE kind = "restart" ->
              LET ni == RestartAt(st.index, RandNum(r, peaklength))
                  inside == ni \in 0..(w - 1)
              IN  [st |-> [i |-> ni + 1, index |-> ni,
                           integral |-> IF inside THEN row[ni] ELSE g,
                           peak_max |-> peak_height],
                   store |-> store, oob |-> (badstore \/ ~inside),
                   seed |-> ni, add |-> -1]
          [] kind = "reset" ->
              \* peak_max is reset before the start test, which may start a
              \* new peak at i at once
              IF Above(s, baseline, peak_height)
              THEN [st |-> [i |-> st.i + 1, index |-> st.i, integral |-> s,
                            peak_max |-> peak_height],
                    store |-> store, oob |-> badstore, seed |-> st.i, add |-> -1]
              ELSE [st |-> [i |-> st.i + 1, index |-> -1, integral |-> 0,
                            peak_max |-> peak_height],
                    store |-> store, oob |-> badstore, seed |-> -1, add |-> -1]
          [] kind = "accumulate" ->
              [st |-> [i |-> st.i + 1, index |-> st.index,
                       integral |-> st.integral + (s - baseline),
                       peak_max |-> IF s > st.peak_max THEN s ELSE st.peak_max],
               store |-> NoStore, oob |-> FALSE, seed |-> -1, add |-> st.i]
          [] kind = "start" ->
              [st |-> [i |-> st.i + 1, index |-> st.i, integral |-> s,
                       peak_max |-> st.peak_max],
               store |-> NoStore, oob |-> FALSE, seed |-> st.i, add |-> -1]
          [] OTHER ->
              [st |-> [st EXCEPT !.i = @ + 1],
               store |-> NoStore, oob |-> FALSE, seed |-> -1, add |-> -1]

\* what the read image[k, i] of the iteration's restart may yield where it
\* leaves the row (boundscheck=False): whatever the memory holds
Unchecked(row, w, st, r) ==
    IF Kind(row, w, st) = "restart"
          /\ RestartAt(st.index, RandNum(r, peaklength)) \notin 0..(w - 1)
    THEN Samples
    ELSE {0}

\* the store result[k, index] = v into a row of the result (boundscheck=False)
StoreInto(resrow, store) ==
    IF store.col \in DOMAIN resrow
    THEN [resrow EXCEPT ![store.col] = store.val]
    ELSE resrow

NoClose == [row |-> -1, start |-> -1, at |-> -1, value |-> Zero,
            restarted |-> FALSE, next |-> -1, back |-> FALSE]

\* the inputs of electron_counting
InitInput(shapes) ==
    /\ \E shape \in shapes :
        LET h == shape[1]
            w == shape[2]
        IN
          /\ image \in [0..(h - 1) -> [0..(w - 1) -> Samples]]
          /\ result = [r \in 0..(h - 1) |-> [c \in 0..(w - 1) |-> Zero]]
          /\ acc = [c \in 0..(w - 1) |-> 0]
    /\ baseline \in Baselines
    /\ peak_height \in PeakHeights
    /\ peakwidth \in PeakWidths
    /\ only_integrate \in BOOLEAN
    /\ oob = FALSE

IdleInput ==
    /\ image = <<>> /\ result = <<>> /\ acc = <<>>
    /\ baseline = 0 /\ peak_height = 0 /\ peakwidth = 1
    /\ only_integrate = FALSE /\ oob = FALSE

InitScan ==
    /\ k = 0 /\ i = 0 /\ index = -1 /\ integral = 0 /\ peak_max = peak_height
    /\ pc = "row"
    /\ opened = {}
    /\ closed = NoClose

IdleScan ==
    /\ k = 0 /\ i = 0 /\ index = -1 /\ integral = 0 /\ peak_max = 0
    /\ pc = "idle"
    /\ opened = {}
    /\ closed = NoClose

IdlePar == workers = <<>> /\ draws = <<>>

IdleCounts ==
    /\ x = 0 /\ prob = <<>> /\ counter = 0 /\ max_probability = 0
    /\ ret = 0 /\ cpc = "idle" /\ evaluated = {}

IdleTable ==
    /\ factorials_table = <<>> /\ tcounter = 0 /\ tpc = "off"
    /\ builds = 0 /\ overflow = FALSE

\* the shapes height x width of the images of at most MaxPixels pixels
Shapes == {sh \in (1..MaxPixels) \X (1..MaxPixels) : sh[1] * sh[2] <= MaxPixels}

Init == InitInput(Shapes) /\ InitScan /\ IdlePar /\ IdleCounts /\ IdleTable

(* --------------------- c_electron_counting, rows in order -------------- *)

\* for k in range(height): integral = 0; index = -1; i = 0; peak_max = peak_height
BeginRow ==
    /\ pc = "row" /\ k < height
    /\ integral' = FreshLocals.integral /\ index' = FreshLocals.index
    /\ i' = FreshLocals.i /\ peak_max' = FreshLocals.peak_max
    /\ pc' = "scan"
    /\ acc' = [c \in DOMAIN acc |-> 0]
    /\ opened' = {}
    /\ UNCHANGED <<config, result, k, oob, closed, parvars, countvars, tablevars>>

\* while i < width: exhausted, the for loop takes the next row
EndRow ==
    /\ pc = "scan" /\ i >= width
    /\ k' = k + 1
    /\ pc' = "row"
    /\ UNCHANGED <<config, result, i, index, integral, peak_max, oob, acc,
                   opened, closed, parvars, countvars, tablevars>>

\* range(height) is exhausted: c_electron_counting returns
Finish ==
    /\ pc = "row" /\ k >= height
    /\ pc' = "done"
    /\ UNCHANGED <<config, result, k, i, index, integral, peak_max, oob, acc,
                   opened, closed, parvars, countvars, tablevars>>

Locals == [i |-> i, index |-> index, integral |-> integral, peak_max |-> peak_max]

Bump(col) == IF col \in DOMAIN acc THEN [acc EXCEPT ![col] = @ + 1] ELSE acc

\* while i < width: the loop of row k has an iteration to run
Scanning == pc = "scan" /\ i < width

\* the branch the next iteration of row k takes
Branch == Kind(image[k], width, Locals)

\* one iteration of the while loop of row k, rand() drawn from rands
Iterate(rands) ==
    /\ \E r \in rands : \E g \in Unchecked(image[k], width, Locals, r) :
          LET b == Body(image[k], width, Locals, r, g)
          IN  /\ i' = b.st.i /\ index' = b.st.index
              /\ integral' = b.st.integral /\ peak_max' = b.st.peak_max
              /\ result' = [result EXCEPT ![k] = StoreInto(@, b.store)]
              /\ oob' = (oob \/ b.oob)
              /\ acc' = Bump(IF b.seed # -1 THEN b.seed ELSE b.add)
              /\ opened' = (IF b.store.col # -1 THEN opened \ {index} ELSE opened)
                              \cup (IF b.seed # -1 THEN {b.seed} ELSE {})
              /\ closed' = IF b.store.col # -1
                           THEN [row |-> k, start |-> index, at |-> i,
                                 value |-> b.store.val,
                                 restarted |-> (Branch = "restart"),
                                 next |-> IF Branch = "restart" THEN b.seed ELSE -1,
                                 back |-> \/ closed.row = k /\ closed.back
                                          \/ Branch = "restart" /\ b.st.i < i]
                           ELSE closed
    /\ UNCHANGED <<config, k, pc, parvars, countvars, tablevars>>

\* the peak is closed and, the sample at i still being above the threshold,
\* a new one is started at the randomized position index + 1 + randnum
ClosePeakRestart ==
    /\ Scanning /\ Branch = "restart"
    /\ Iterate(0..RAND_MAX)

\* the peak is closed and the scan returns to the no-peak state
ClosePeakReset ==
    /\ Scanning /\ Branch = "reset"
    /\ Iterate({0})

\* elif index != -1: integral += image[k, i] - baseline; peak_max follows
Accumulate ==
    /\ Scanning /\ Branch = "accumulate"
    /\ Iterate({0})

\* if index == -1 and image[k, i] - baseline > peak_max*threshold
StartPeak ==
    /\ Scanning /\ Branch = "start"
    /\ Iterate({0})

\* no peak is active and the sample does not start one
Skip ==
    /\ Scanning /\ Branch = "skip"
    /\ Iterate({0})

Next ==
    \/ BeginRow
    \/ EndRow
    \/ Finish
    \/ ClosePeakRestart
    \/ ClosePeakReset
    \/ Accumulate
    \/ StartPeak
    \/ Skip

Spec == Init /\ [][Next]_vars

(* ----------------------- claims on the row scan ------------------------ *)

RECURSIVE SumCorrected(_, _, _)
\* sum of (row[j] - baseline) over the columns a..b
SumCorrected(row, a, b) ==
    IF a > b THEN 0 ELSE (row[a] - baseline) + SumCorrected(row, a + 1, b)

\* row r holds the baseline in every column
Flat(r) == \A c \in DOMAIN image[r] : image[r][c] = baseline

\* C1: every read image[k, i] and every write result[k, index] of the scan
\* stays inside the image: the row k is below height and no access used a
\* column outside 0..width-1, the seed read after a restart included.
C1_NoOutOfRangeAccess ==
    /\ ~oob
    /\ (pc = "scan" => k \in 0..(height - 1))

\* C2: when the while-loop over a row exits, every peak the scan started in
\* that row has been closed and its value written at its start column: no
\* peak is left active (index # -1) or unwritten.
C2_EveryPeakClosedAtRowEnd ==
    (pc = "scan" /\ i >= width) => (index = -1 /\ opened = {})

\* C3: a peak that ran for peakLength >= 1 columns and was closed with its
\* sample still above the threshold is closed at column index+peakLength, and
\* the next peak starts in the half-open range [index+1, index+1+peakLength),
\* whatever was drawn (stated here for the restarts that land inside the row).
C3_TruncationAndRestartRange ==
    (closed.restarted /\ peaklength >= 1
        /\ closed.at - closed.start >= peaklength
        /\ closed.next \in 0..(width - 1))
    => /\ closed.at = closed.start + peaklength
       /\ closed.next \in (closed.start + 1)..(closed.start + peaklength)

\* C4: in integrate-only mode the value written when a peak closes is the
\* sum of (image[row, j] - baseline) over the columns from the start of the
\* peak up to, not including, the column at which it is closed.
C4_IntegralIsBaselineCorrectedSum ==
    (closed.row # -1 /\ only_integrate)
    => closed.value
         = Value(SumCorrected(image[closed.row], closed.start, closed.at - 1))

\* C7: a row whose every sample equals the baseline never starts a peak
\* while it is scanned and its result row is zero everywhere, in either mode.
C7_FlatRowYieldsZero ==
    \A r \in DOMAIN image :
        Flat(r) =>
            /\ \A c \in DOMAIN result[r] : result[r][c] = Zero
            /\ (pc = "scan" /\ k = r) => (index = -1 /\ opened = {})

\* a flat row with a non-zero baseline has been scanned to its end in
\* counting mode
C7_Witness ==
    /\ pc = "scan" /\ i = width /\ width >= 2
    /\ Flat(k) /\ baseline # 0 /\ ~only_integrate

\* C9: no column is accumulated into the integral of more than one peak, and
\* a randomized restart never moves the scan back before the column at which
\* the peak was closed.
C9_PeaksNeverOverlap ==
    /\ \A c \in DOMAIN acc : acc[c] <= 1
    /\ closed.restarted => closed.next >= closed.at

(* ----------------------- termination of the scan ----------------------- *)

\* c_electron_counting runs to completion: a step that can be taken is taken
LiveSpec == Spec /\ WF_vars(Next)

\* a peak is active only at a column the scan has passed, and the scan never
\* runs further than one restart beyond the row
ScanBounded ==
    pc = "scan" =>
        /\ index # -1 => index < i
        /\ i >= 0 /\ i <= width + peaklength

\* a restart starts the new peak strictly after the start of the closed one;
\* every other iteration advances i by one
ScanProgress ==
    Scanning =>
        IF Branch = "restart"
        THEN index # -1 /\ index' > index /\ i' = index' + 1
        ELSE i' = i + 1

\* the scan of a row, once begun, reaches the exit of its while loop (the
\* next row is begun only from there)
RowScanEnds == (pc = "scan") ~> (pc = "scan" /\ i >= width)

\* C11: the scan of every row terminates whatever rand() returns, also under
\* draws that move i backwards: every restart puts the start of the new peak
\* strictly after the start of the closed one, i advances by one between
\* restarts, so the while loop of each row reaches i >= width.
C11_ScanTerminates ==
    /\ []ScanBounded
    /\ [][ScanProgress]_vars
    /\ RowScanEnds

\* the while loop of a row has exited after a restart that moved i backwards
C11_Witness ==
    /\ pc = "scan" /\ i >= width
    /\ closed.row = k /\ closed.back

(* --------------- c_find_most_likely_counts (count estimator) ----------- *)

\* the value an IEEE operation on inf and 0 yields; no comparison with it holds
NaN == 0 - 1

\* The values of c_count_probability(n, x) for n = 0..19, which the float
\* formula (exp, pow, sqrt) puts beyond integer arithmetic: every sequence
\* whose superlevel sets {n : P(n) >= t}, t = 1..MaxProb, are nested
\* intervals lo[t] <= n < hi[t], that is every unimodal sequence with values
\* in 0..MaxProb.  At counts = 0 the formula divides by sqrt(2*pi*0) and by
\* 2*0: with nan the entry is the NaN that inf*0 gives under IEEE arithmetic.
ProbSequence(lo, hi, nan) ==
    [n \in 0..(factorials_table_length - 1) |->
        IF nan /\ n = 0 THEN NaN
        ELSE Cardinality({t \in 1..MaxProb : lo[t] <= n /\ n < hi[t]})]

InitCounts ==
    /\ x \in (-MaxXQuarters)..MaxXQuarters
    /\ \E lo \in [1..MaxProb -> 0..factorials_table_length],
          hi \in [1..MaxProb -> 0..factorials_table_length],
          nan \in BOOLEAN :
          /\ \A t \in 1..MaxProb : lo[t] <= hi[t]
          /\ \A t \in 1..(MaxProb - 1) : lo[t] <= lo[t + 1] /\ hi[t + 1] <= hi[t]
          /\ prob = ProbSequence(lo, hi, nan)
    /\ counter = 0 /\ max_probability = 0 /\ ret = -1
    /\ cpc = "call"
    /\ evaluated = {}

InitC == IdleInput /\ IdleScan /\ IdlePar /\ InitCounts /\ IdleTable

\* round(x+0.25) == 0.0, x in quarters
ZeroFastPath(xq) == Round(xq + 1, 4) = 0

\* current_probability < max_probability on floats
Less(a, b) == a # NaN /\ b # NaN /\ a < b

\* c_count_probability(counts, x)
c_count_probability(counts, xq) == prob[counts]

ReturnCounter(c) == c

\* return counter - 1
ReturnPrevious(c) == c - 1

unchangedByCounts == <<config, result, oob, scanvars, parvars, tablevars>>

\* if round(x+0.25) == 0.0: return 0.0
ReturnZero ==
    /\ cpc = "call" /\ ZeroFastPath(x)
    /\ ret' = 0
    /\ cpc' = "done"
    /\ UNCHANGED <<x, prob, counter, max_probability, evaluated, unchangedByCounts>>

\* max_probability = 0; counter = 0
EnterSearch ==
    /\ cpc = "call" /\ ~ZeroFastPath(x)
    /\ max_probability' = 0 /\ counter' = 0
    /\ cpc' = "loop"
    /\ UNCHANGED <<x, prob, ret, evaluated, unchangedByCounts>>

\* the probability has dropped: return counter - 1
SearchReturn ==
    /\ cpc = "loop" /\ counter < factorials_table_length
    /\ Less(c_count_probability(counter, x), max_probability)
    /\ evaluated' = evaluated \cup {counter}
    /\ ret' = ReturnPrevious(counter)
    /\ cpc' = "done"
    /\ UNCHANGED <<x, prob, counter, max_probability, unchangedByCounts>>

\* max_probability = current_probability; counter += 1
SearchAdvance ==
    /\ cpc = "loop" /\ counter < factorials_table_length
    /\ ~Less(c_count_probability(counter, x), max_probability)
    /\ evaluated' = evaluated \cup {counter}
    /\ max_probability' = c_count_probability(counter, x)
    /\ counter' = counter + 1
    /\ UNCHANGED <<x, prob, ret, cpc, unchangedByCounts>>

\* the table is exhausted: return factorials_table_length
ReturnCap ==
    /\ cpc = "loop" /\ counter >= factorials_table_length
    /\ ret' = factorials_table_length
    /\ cpc' = "done"
    /\ UNCHANGED <<x, prob, counter, max_probability, evaluated, unchangedByCounts>>

NextCounts ==
    \/ ReturnZero
    \/ EnterSearch
    \/ SearchReturn
    \/ SearchAdvance
    \/ ReturnCap

SpecCounts == InitC /\ [][NextCounts]_vars

(* --------------------- claims on the count estimator ------------------- *)

Table == 0..(factorials_table_length - 1)

\* every value of the sequence is a number >= 0
NonNegative == \A n \in Table : prob[n] # NaN /\ prob[n] >= 0

\* non-decreasing up to some m, non-increasing from it
Unimodal ==
    \E m \in Table :
        /\ \A n \in 1..m : prob[n - 1] <= prob[n]
        /\ \A n \in (m + 1)..(factorials_table_length - 1) : prob[n] <= prob[n - 1]

\* P(n, x) is a maximum of the sequence
IsArgmax(n) == \A m \in Table : prob[m] <= prob[n]

\* the probability decreases somewhere within the table
Decreases == \E m \in 1..(factorials_table_length - 1) : prob[m] < prob[m - 1]

\* c_find_most_likely_counts(x) has returned from its search
Searched == cpc = "done" /\ ~ZeroFastPath(x) /\ NonNegative /\ Unimodal

\* C5 (as claimed): for every x off the zero fast path and every unimodal
\* sequence of non-negative probabilities, the returned count is in 0..19
\* and is an argmax of the sequence.
C5_ReturnsArgmaxInTable ==
    Searched => (ret \in Table /\ IsArgmax(ret))

\* C5 (amended): if the probability decreases somewhere within the table the
\* returned count is in 0..18 and is an argmax of the sequence; if it never
\* decreases the search returns factorials_table_length (20), which is not
\* an index of the table.
C5_ReturnsArgmaxOrCap ==
    Searched =>
        IF Decreases
        THEN ret \in 0..(factorials_table_length - 2) /\ IsArgmax(ret)
        ELSE ret = factorials_table_length

\* the search returned a maximum strictly inside the table, above both ends
C5_Witness ==
    /\ Searched
    /\ ret \in 1..(factorials_table_length - 2)
    /\ prob[0] < prob[ret] /\ prob[factorials_table_length - 1] < prob[ret]

\* C10: the general formula c_count_probability(counts, x) is never invoked
\* with counts = 0.
C10_NeverEvaluatedAtZero == 0 \notin evaluated

(* ------------------------ create_factorials_table ---------------------- *)

\* A long is kept as LongLimbs limbs of 16 bits, least significant first
\* (the products leave the range of the model checker's own integers).
LimbBase == 2 ^ 16

IntLimbs == 1 + 1

\* cdef long factorials_table[...]: 64 bits
LongLimbs == 4

\* the long of a small number n, 0 <= n < LimbBase
LongOf(n) == [j \in 1..LongLimbs |-> IF j = 1 THEN n ELSE 0]

RECURSIVE MulLimbs(_, _, _)
\* the limbs of a * c + carry for a small factor c, one limb longer than a
MulLimbs(a, c, carry) ==
    IF a = <<>> THEN <<carry>>
    ELSE LET p == Head(a) * c + carry
         IN  <<p % LimbBase>> \o MulLimbs(Tail(a), c, p \div LimbBase)

\* the product is a non-negative long: nothing carried out, sign bit clear
FitsLong(w) == w[LongLimbs + 1] = 0 /\ w[LongLimbs] < LimbBase \div 2

\* factorials_table[counter-1] * <long>counter: the values the product may
\* take; an overflow of the signed type is undefined, the builds wrap
LongMul(a, c) ==
    LET w == MulLimbs(a, c, 0)
    IN  IF FitsLong(w) THEN {SubSeq(w, 1, LongLimbs)}
        ELSE {SubSeq(w, 1, LongLimbs), LongOf(0)}

InitTable ==
    \* a global array: zero until the first call
    /\ factorials_table = [n \in 0..(factorials_table_length - 1) |-> LongOf(0)]
    /\ tcounter = 0
    /\ tpc = "idle"
    /\ builds = 0
    /\ overflow = FALSE

InitT == IdleInput /\ IdleScan /\ IdlePar /\ IdleCounts /\ InitTable

unchangedByTable == <<config, result, oob, scanvars, parvars, countvars>>

\* create_factorials_table(length): factorials_table[0] = 1; counter = 1
CreateTable(caller) ==
    /\ tpc = "idle" /\ builds < MaxCalls
    /\ factorials_table' = [factorials_table EXCEPT ![0] = LongOf(1)]
    /\ tcounter' = 1
    /\ tpc' = caller
    /\ UNCHANGED <<builds, overflow, unchangedByTable>>

\* c_electron_counting starts with create_factorials_table(factorials_table_length)
CallElectronCounting ==
    /\ tpc = "idle"
    /\ CreateTable("c_electron_counting")

\* so does c_find_most_likely_counts_image
CallFindMostLikelyCountsImage ==
    /\ tpc = "idle"
    /\ CreateTable("c_find_most_likely_counts_image")

\* factorials_table[counter] = factorials_table[counter-1] * <long>counter
FillEntry ==
    /\ tpc # "idle" /\ tcounter < factorials_table_length
    /\ \E v \in LongMul(factorials_table[tcounter - 1], tcounter) :
          factorials_table' = [factorials_table EXCEPT ![tcounter] = v]
    /\ overflow' = (overflow
                     \/ ~FitsLong(MulLimbs(factorials_table[tcounter - 1], tcounter, 0)))
    /\ tcounter' = tcounter + 1
    /\ UNCHANGED <<tpc, builds, unchangedByTable>>

\* while counter < length: exhausted, the table is built
TableBuilt ==
    /\ tpc # "idle" /\ tcounter >= factorials_table_length
    /\ tpc' = "idle"
    /\ builds' = builds + 1
    /\ UNCHANGED <<factorials_table, tcounter, overflow, unchangedByTable>>

NextTable ==
    \/ CallElectronCounting
    \/ CallFindMostLikelyCountsImage
    \/ FillEntry
    \/ TableBuilt

SpecTable == InitT /\ [][NextTable]_vars

(* --------------------- claims on the factorial table ------------------- *)

RECURSIVE Strip(_)
\* the limbs without leading zero limbs: the number itself
Strip(w) ==
    IF w # <<>> /\ w[Len(w)] = 0 THEN Strip(SubSeq(w, 1, Len(w) - 1)) ELSE w

RECURSIVE Factorial(_)
\* n! as an unbounded number
Factorial(n) == IF n = 0 THEN <<1>> ELSE Strip(MulLimbs(Factorial(n - 1), n, 0))

\* C8: once create_factorials_table(20) has run, table[0] = 1 and
\* table[i] = i * table[i-1] = i! as mathematical integers for i in 1..19,
\* no product having left the 64-bit signed range; from then on every state,
\* those of a later rebuild included, shows the same entries.
C8_TableHoldsFactorials ==
    builds >= 1 =>
        /\ ~overflow
        /\ Strip(factorials_table[0]) = <<1>>
        /\ \A n \in 1..(factorials_table_length - 1) :
              /\ factorials_table[n][LongLimbs] < LimbBase \div 2
              /\ Strip(factorials_table[n])
                   = Strip(MulLimbs(factorials_table[n - 1], n, 0))
              /\ Strip(factorials_table[n]) = Factorial(n)

\* a rebuild of the table is half way through
C8_Witness ==
    /\ builds >= 1 /\ tpc # "idle"
    /\ tcounter = factorials_table_length \div 2

(* ------------- c_electron_counting, rows as parallel processes --------- *)

Rows == DOMAIN image

InitPar ==
    /\ workers = [r \in Rows |-> [pc |-> "row", st |-> FreshLocals]]
    /\ draws = [r \in Rows |-> <<>>]

InitP == InitInput({ParRows} \X (1..ParWidth)) /\ IdleScan /\ InitPar /\ IdleCounts /\ IdleTable

unchangedByPar == <<config, scanvars, countvars, tablevars>>

\* the process of row r enters its row: integral = 0; index = -1; i = 0; ...
ParBeginRow(r) ==
    /\ workers[r].pc = "row"
    /\ workers' = [workers EXCEPT ![r] = [pc |-> "scan", st |-> FreshLocals]]
    /\ UNCHANGED <<result, oob, draws, unchangedByPar>>

\* one iteration of the while loop of row r, with its draw of rand()
ParIterate(r, rands) ==
    \E rnd \in rands : \E g \in Unchecked(image[r], width, workers[r].st, rnd) :
        LET b == Body(image[r], width, workers[r].st, rnd, g)
        IN  /\ workers' = [workers EXCEPT ![r].st = b.st]
            /\ result' = [result EXCEPT ![r] = StoreInto(@, b.store)]
            /\ oob' = (oob \/ b.oob)
            /\ draws' = IF Kind(image[r], width, workers[r].st) = "restart"
                        THEN [draws EXCEPT ![r] = Append(@, <<rnd, g>>)]
                        ELSE draws
            /\ UNCHANGED unchangedByPar

\* an iteration of row r that closes a peak and restarts at a drawn position
ParRestart(r) ==
    /\ workers[r].pc = "scan" /\ workers[r].st.i < width
    /\ Kind(image[r], width, workers[r].st) = "restart"
    /\ ParIterate(r, 0..RAND_MAX)

\* any other iteration of row r
ParStep(r) ==
    /\ workers[r].pc = "scan" /\ workers[r].st.i < width
    /\ Kind(image[r], width, workers[r].st) # "restart"
    /\ ParIterate(r, {0})

\* while i < width: exhausted, the process of row r is done
ParEndRow(r) ==
    /\ workers[r].pc = "scan" /\ workers[r].st.i >= width
    /\ workers' = [workers EXCEPT ![r].pc = "done"]
    /\ UNCHANGED <<result, oob, draws, unchangedByPar>>

NextPar ==
    \/ \E r \in Rows : ParBeginRow(r)
    \/ \E r \in Rows : ParRestart(r)
    \/ \E r \in Rows : ParStep(r)
    \/ \E r \in Rows : ParEndRow(r)

SpecPar == InitP /\ [][NextPar]_vars

(* ----------------------- claims on row independence -------------------- *)

RECURSIVE RunRow(_, _, _, _, _)
\* the result row the scan of one row alone produces from the locals st and
\* the result row res, consuming the draws ds in order
RunRow(row, w, st, res, ds) ==
    IF st.i >= w THEN res
    ELSE LET drawn == Kind(row, w, st) = "restart"
             d == IF drawn THEN Head(ds) ELSE <<0, 0>>
             b == Body(row, w, st, d[1], d[2])
         IN  RunRow(row, w, b.st, StoreInto(res, b.store),
                    IF drawn THEN Tail(ds) ELSE ds)

\* the rows processed one after the other, each with the draws it was given
SequentialResult ==
    [r \in Rows |->
        RunRow(image[r], width, FreshLocals, [c \in 0..(width - 1) |-> Zero],
               draws[r])]

AllRowsDone == \A r \in Rows : workers[r].pc = "done"

\* in whatever order the steps of the rows interleave, the result image is
\* the one the rows produce in sequence from the same draws
ParallelEqualsSequential == AllRowsDone => result = SequentialResult

\* C6: the scan of row k reads only samples of image row k and writes only
\* cells of result row k (no access leaves the row), and every interleaving
\* of the rows' steps ends with the result image of the sequential run.
C6_RowIndependence ==
    /\ ~oob
    /\ ParallelEqualsSequential

====
